---- MODULE Spec2Model ----
(***************************************************************************)
(* RDS instance info collector: the session manager (TTL cache of boto3    *)
(* sessions and thread pool, utils/aws_session_manager.py), the collection *)
(* run (collectors/rds_instance_info_collector.py) and the two credential  *)
(* strategies (utils/session_strategy.py), as a state machine.             *)
(*                                                                         *)
(* The orchestration code runs on one asyncio event loop: a coroutine runs *)
(* without interruption from one suspension point (an await that really    *)
(* waits: run_in_executor, gather, a motor call) to the next.  Each action *)
(* below is one such segment.  asyncio.Lock.acquire() on a free lock does  *)
(* not suspend, and no code path holds _cache_lock across an await, so the *)
(* locked sections are inside one segment.                                 *)
(***************************************************************************)
EXTENDS Integers, Sequences, FiniteSets, TLC

(* ------------------------------ configuration -------------------------- *)

\* AWS_ACCOUNTS and AWS_REGIONS of the environment (Config.from_env).
aws_accounts == <<"111", "222">>
aws_regions == <<"us-east-1", "ap-northeast-2">>

\* SSO_PROFILE of the environment, and the account id validate_sso_access
\* recovers from it: sso_profile.split('AdministratorAccess-')[-1].
sso_profile == "AdministratorAccess-111"
profile_account_id == "111"

\* ENVIRONMENT values the model starts from.
Environments == {"Development", "production"}

\* The clock counts ticks of four hours from midnight (KST) of the day the
\* process starts, up to MaxTime.
MaxTime == 3
\* Largest number of instances one describe_db_instances pagination returns.
MaxInstances == 1
\* TTLCache(ttl=8 * 3600): the time to live, in ticks.
TTL == 2
\* CronTrigger(hour=8, minute=0): the job fires at tick CronTick of every day
\* of DayTicks ticks.
CronTick == 2
DayTicks == 6
\* The process starts (main) at one of these ticks, before the day's 08:00.
StartTicks == 0..(CronTick - 1)

\* AWSSSOSessionManager.__init__(sso_profile, max_workers=10): the default
\* pool size, which the collector uses, and the pool sizes the model starts
\* from.  With the two regions of the model only a pool of one worker is
\* ever full.
DefaultMaxWorkers == 10
PoolSizes == {1, DefaultMaxWorkers}

Accounts == 1..Len(aws_accounts)
Regions == 1..Len(aws_regions)
AccountIds == {aws_accounts[i] : i \in Accounts} \cup {profile_account_id}

VARIABLES
  environment,     \* os.getenv('ENVIRONMENT')
  profiles,        \* the account ids with an AdministratorAccess-<id> profile
  now,             \* the clock (TTLCache timer, datetime.now)
  session_cache,   \* AWSSSOSessionManager._session_cache
  run,             \* number of collect_all_accounts calls started
  immediate,       \* main has yet to make its immediate (development) run
  cron_fired,      \* the scheduler has fired the job at this tick
  pc,              \* where collect_all_accounts is suspended
  vsession,        \* validate_sso_access: its local `session`
  is_valid,        \* collect_all_accounts: its local `is_valid`
  idx,             \* position in aws_accounts of the account being collected
  task,            \* the collect_instance_data coroutines of the gather
  valid_instances, \* collect_all_accounts: its local `valid_instances`
  account_instances, \* collect_all_accounts: its local `account_instances`
  store,           \* the MongoDB collection: the documents inserted so far
  base,            \* history: Len(store) when the current run started
  run_end,         \* how the latest run ended
  summary,         \* history: per account of the current run, what happened
  inserted,        \* history: every write to session_cache, with its time
  max_workers,     \* AWSSSOSessionManager(max_workers=...): the pool size
  executor,        \* AWSSSOSessionManager.executor: its queue and workers
  call             \* the latest call of the session API from outside the
                   \* collector, until the next step of the program

vars == <<environment, profiles, now, session_cache, run, immediate,
          cron_fired, pc, vsession, is_valid, idx, task, valid_instances,
          account_instances, store, base, run_end, summary, inserted,
          max_workers, executor, call>>

(* ------------------------------ config.py ------------------------------ *)

\* str.lower() on the environment names of the model.
Lower(s) == IF s = "Development" THEN "development" ELSE s

\* Config.from_env: auth_type = 'sso' if environment.lower() == 'development'
\* else 'iam_role'.
auth_type == IF Lower(environment) = "development" THEN "sso" ELSE "iam_role"

(* ------------------------------ sessions ------------------------------- *)

NoSession == [acct |-> "none", run |-> 0, by |-> 0, via |-> "none"]

\* boto3.Session(profile_name="AdministratorAccess-<id>", region_name=...)
\* in get_session: a new object each time it is evaluated.  `by` is the
\* caller (0: validate_sso_access, r: the task of region r).
NewSession(account_id, by) ==
  [acct |-> account_id, run |-> run, by |-> by, via |-> "profile"]

(* ------------------------------ TTLCache ------------------------------- *)

NoEntry == [session |-> NoSession, expires |-> 0]

\* TTLCache.__contains__: the key is linked and timer() < link.expires.
CacheContains(cache, key, t) ==
  cache[key].session # NoSession /\ t < cache[key].expires

\* TTLCache.__setitem__: expire(time) drops every expired entry, then the
\* key is (re)linked with expires = time + ttl.  maxsize=100 is never reached
\* with the accounts of the model.
CacheSet(cache, key, s, t) ==
  [k \in AccountIds |->
     IF k = key THEN [session |-> s, expires |-> t + TTL]
     ELSE IF CacheContains(cache, k, t) THEN cache[k] ELSE NoEntry]

(* ------------------------------ ThreadPoolExecutor -------------------- *)

\* The coroutines that submit blocking calls to the executor: 0 is
\* validate_sso_access, r the collect_instance_data task of region r.  Each
\* awaits the call it submitted, so each has at most one call in the pool.
Callers == {0} \cup Regions

\* ThreadPoolExecutor(max_workers=max_workers): `running` are the callers
\* whose call a worker thread is executing, `queue` the calls that wait for
\* a worker, first in first out.
IdleExecutor == [queue |-> <<>>, running |-> {}]

\* Submit for an executor that starts a thread for every call.
SubmitUnbounded(ex, c) == [ex EXCEPT !.running = @ \cup {c}]

\* run_in_executor(self.executor, fn) -> ThreadPoolExecutor.submit: a worker
\* takes the call at once while fewer than max_workers calls are running;
\* otherwise the call waits in the queue.
Submit(ex, c) ==
  IF Cardinality(ex.running) < max_workers
    THEN [ex EXCEPT !.running = @ \cup {c}]
    ELSE [ex EXCEPT !.queue = Append(@, c)]

\* The call of caller c ends (it returns or raises): its worker takes the
\* head of the queue, if there is one.
Finish(ex, c) ==
  IF ex.queue # <<>>
    THEN [queue |-> Tail(ex.queue),
          running |-> (ex.running \ {c}) \cup {Head(ex.queue)}]
    ELSE [ex EXCEPT !.running = @ \ {c}]

(* ------------------------------ exceptions ----------------------------- *)

\* The exceptions the AWS calls of the model raise; every one is a subclass
\* of Exception.
Errors == {"ProfileNotFound", "ClientError", "TokenRetrievalError",
           "EndpointConnectionError"}

\* An `except ClientError` clause.
except_ClientError(error) == error = "ClientError"

\* The clause `except Exception` of get_session (lines 57-59), of get_client
\* (lines 88-93) and of both create_session methods (session_strategy.py
\* lines 40-42, 87-89): it catches every exception of its try block.
except_Exception(error) == error \in Errors

(* ------------------------------ tasks ---------------------------------- *)

\* `got` is what get_session returned to the task, `validation` how its
\* validate_session call ended, `client` what get_client returned and
\* `smoke` how the create_client call behind that answer ended (kept while
\* the client is in use).
IdleTask == [pc |-> "idle", got |-> "pending", session |-> NoSession,
             validated |-> FALSE, validation |-> "none", smoke |-> "none",
             client |-> "pending", failed |-> FALSE, result |-> <<>>]
NewTask == [IdleTask EXCEPT !.pc = "start"]

\* _parse_instance_data: the record of instance i of (account, region).
_parse_instance_data(i, account_id, region, t) ==
  [AccountId |-> account_id, Region |-> region, DBInstanceIdentifier |-> i,
   CollectedAt |-> t]

\* collect_instance_data, lines 146-154: parse every fetched instance.
ParsedInstances(k, account_id, region, t) ==
  [i \in 1..k |-> _parse_instance_data(i, account_id, region, t)]

NoSummary == [done |-> FALSE, auth_failed |-> FALSE,
              tasks |-> [r \in Regions |->
                           [finished |-> FALSE, failed |-> FALSE,
                            result |-> <<>>]],
              aggregate |-> <<>>, log |-> "none", sink |-> "none",
              completion |-> 0]

\* No call of the session API from outside the collector is in progress.
\* `thread` is where the call made its blocking AWS call, if it made one.
NoCall == [op |-> "none", strategy |-> "none", account_id |-> "none",
           result |-> "none", thread |-> "none"]

Init ==
  /\ environment \in Environments
  /\ profiles \in SUBSET AccountIds
  /\ now \in StartTicks
  /\ session_cache = [k \in AccountIds |-> NoEntry]
  /\ run = 0
  /\ immediate = (Lower(environment) = "development")
  /\ cron_fired = FALSE
  /\ pc = "idle"
  /\ vsession = NoSession
  /\ is_valid = FALSE
  /\ idx = 0
  /\ task = [r \in Regions |-> IdleTask]
  /\ valid_instances = <<>>
  /\ account_instances = {}
  /\ store = <<>>
  /\ base = 0
  /\ run_end = "none"
  /\ summary = [i \in Accounts |-> NoSummary]
  /\ inserted = {}
  /\ max_workers \in PoolSizes
  /\ executor = IdleExecutor
  /\ call = NoCall

(* ------------------------------ get_session ---------------------------- *)

\* get_session, lines 26-29: under the lock, a key the cache contains is
\* returned at once.
CacheHit(account_id) == CacheContains(session_cache, account_id, now)

\* get_session, lines 51-53: under the lock, the validated session is stored.
CacheInsert(account_id, s, validation) ==
  /\ session_cache' = CacheSet(session_cache, account_id, s, now)
  /\ inserted' = inserted \cup {[acct |-> account_id, session |-> s,
                                 time |-> now, validation |-> validation]}

\* How a validate_session call ended, for the histories.
ValidateOutcomes == {"ok", "ClientError", "TokenRetrievalError"}
Validation(outcome) == IF outcome = "ok" THEN "passed" ELSE "failed"

\* ValidationPassed that takes every ended call for a success.
ValidationIgnored(outcome) == TRUE

\* get_session, lines 46-49: the await of run_in_executor raises what
\* validate_session raised, so line 52 is reached only when it returned.
ValidationPassed(outcome) == outcome = "ok"

\* get_session, lines 57-59: what the caller gets when `error` is raised in
\* the try block.
SessionFailure(error) == IF except_Exception(error) THEN "null" ELSE "raised"

(* ------------------------------ the run -------------------------------- *)

\* collect_all_accounts returns at line 213: the global validation failed.
ReturnInvalid ==
  /\ vsession' = NoSession
  /\ is_valid' = FALSE
  /\ pc' = "idle"
  /\ run_end' = "invalid"

\* main, lines 266-286: the job is scheduled daily at 08:00 KST, and in the
\* development environment main first runs a collection itself.
Scheduled(kind) ==
  IF kind = "immediate"
    THEN immediate
    ELSE ~immediate /\ ~cron_fired /\ now % DayTicks = CronTick

\* A call of collect_all_accounts (the scheduled job, or main's immediate run
\* in the development environment) up to its first suspension, inside
\* validate_sso_access -> get_session(profile_account_id).
StartRun(kind) ==
  /\ pc = "idle"
  /\ call = NoCall
  /\ Scheduled(kind)
  /\ immediate' = FALSE
  /\ cron_fired' = (kind = "cron" \/ cron_fired)
  /\ run' = run + 1
  /\ idx' = 0
  /\ task' = [r \in Regions |-> IdleTask]
  /\ valid_instances' = <<>>
  /\ account_instances' = {}
  /\ summary' = [i \in Accounts |-> NoSummary]
  /\ base' = Len(store)
  /\ UNCHANGED <<max_workers, call, environment, profiles, now,
                 session_cache, store, inserted>>
  /\ IF CacheHit(profile_account_id)
       THEN \* cache hit; suspended in run_in_executor(session.client('sts'))
            /\ vsession' = session_cache[profile_account_id].session
            /\ pc' = "v_client"
            /\ is_valid' = FALSE
            /\ run_end' = "none"
            /\ executor' = Submit(executor, 0)
       ELSE IF profile_account_id \in profiles
                THEN \* suspended in run_in_executor(validate_session)
                     /\ vsession' = [NewSession(profile_account_id, 0)
                                       EXCEPT !.run = run + 1]
                     /\ pc' = "v_session"
                     /\ is_valid' = FALSE
                     /\ run_end' = "none"
                     /\ executor' = Submit(executor, 0)
                ELSE \* boto3.Session raises (ProfileNotFound): None, False
                     /\ ReturnInvalid
                     /\ UNCHANGED executor

\* validate_sso_access: get_session's validate_session call has ended.
ValidateSsoSession(outcome) ==
  /\ pc = "v_session"
  /\ 0 \in executor.running
  /\ UNCHANGED <<max_workers, call, environment, profiles, base, now, run,
                 immediate, cron_fired, idx, task, valid_instances,
                 account_instances, store, summary>>
  /\ IF ValidationPassed(outcome)
       THEN /\ CacheInsert(profile_account_id, vsession, Validation(outcome))
            /\ pc' = "v_client"
            /\ executor' = Submit(Finish(executor, 0), 0)
            /\ UNCHANGED <<vsession, is_valid, run_end>>
       ELSE /\ ReturnInvalid
            /\ executor' = Finish(executor, 0)
            /\ UNCHANGED <<session_cache, inserted>>

\* validate_sso_access, lines 125-128: session.client('sts') has ended.
ValidateSsoClient(ok) ==
  /\ pc = "v_client"
  /\ 0 \in executor.running
  /\ UNCHANGED <<max_workers, call, environment, profiles, base, now,
                 session_cache, run, immediate, cron_fired, idx, task,
                 valid_instances, account_instances, store, summary,
                 inserted>>
  /\ IF ok
       THEN /\ pc' = "v_identity"
            /\ executor' = Submit(Finish(executor, 0), 0)
            /\ UNCHANGED <<vsession, is_valid, run_end>>
       ELSE /\ ReturnInvalid
            /\ executor' = Finish(executor, 0)

\* The tasks collect_all_accounts creates for one account (lines 218-224).
LaunchAccount(i) ==
  /\ idx' = i
  /\ task' = [r \in Regions |-> NewTask]
  /\ valid_instances' = <<>>
  /\ pc' = "gather"

\* NextAccount with a return in the branch of line 239: the run ends at the
\* first account that has no instances.
NextAccountStopsOnEmpty ==
  IF idx < Len(aws_accounts) /\ summary'[idx].aggregate # <<>>
    THEN /\ LaunchAccount(idx + 1)
         /\ UNCHANGED run_end
    ELSE /\ pc' = "idle"
         /\ run_end' = "returned"
         /\ task' = [r \in Regions |-> IdleTask]
         /\ valid_instances' = <<>>
         /\ UNCHANGED idx

\* CompletionEvents of a completion log inside the loop over the accounts.
CompletionPerAccount(i) == 1

\* Line 241: the "Completed collection for all accounts" event is logged
\* after the loop, hence once, when the account at position i was the last;
\* the number of completion events logged when account i has been handled.
CompletionEvents(i) == IF i = Len(aws_accounts) THEN 1 ELSE 0

\* After an account: the next one, or the end of the run (line 241).
NextAccount ==
  IF idx < Len(aws_accounts)
    THEN /\ LaunchAccount(idx + 1)
         /\ UNCHANGED run_end
    ELSE /\ pc' = "idle"
         /\ run_end' = "returned"
         /\ task' = [r \in Regions |-> IdleTask]
         /\ valid_instances' = <<>>
         /\ UNCHANGED idx

\* validate_sso_access, lines 130-135: sts.get_caller_identity() has ended;
\* on success collect_all_accounts goes on to the first account's gather.
ValidateSsoIdentity(ok) ==
  /\ pc = "v_identity"
  /\ 0 \in executor.running
  /\ executor' = Finish(executor, 0)
  /\ UNCHANGED <<max_workers, call, environment, profiles, base, now,
                 session_cache, run, immediate, cron_fired, store, summary,
                 inserted, account_instances>>
  /\ IF ok
       THEN /\ is_valid' = TRUE
            /\ vsession' = NoSession
            /\ LaunchAccount(1)
            /\ UNCHANGED run_end
       ELSE /\ ReturnInvalid
            /\ UNCHANGED <<idx, task, valid_instances>>

(* ------------------------------ collect_instance_data ------------------ *)

\* The event loop runs ready callbacks first in, first out: the tasks gather
\* created run their first segment, in order, before any executor result is
\* delivered to a coroutine.
NoneUnstarted == \A r \in Regions : task[r].pc # "start"

\* A task ends: collect_instance_data returns `result`, which is [] when it
\* ends through one of its error paths (lines 128-130, 156-160, 162-164).
TaskReturn(r, failed, result) ==
  [task[r] EXCEPT !.pc = "done", !.failed = failed, !.result = result]

\* collect_instance_data -> get_client -> get_session(account_id), up to the
\* first suspension: run_in_executor(create_client) on a cache hit,
\* run_in_executor(validate_session) on a miss.
TaskStart(r) ==
  /\ pc = "gather"
  /\ task[r].pc = "start"
  /\ \A q \in Regions : q < r => task[q].pc # "start"
  /\ UNCHANGED <<max_workers, call, environment, profiles, base, now,
                 session_cache, run, immediate, cron_fired, pc, vsession,
                 is_valid, idx, valid_instances, account_instances, store,
                 run_end, summary, inserted>>
  /\ LET account_id == aws_accounts[idx] IN
     IF CacheHit(account_id)
       THEN /\ task' = [task EXCEPT ![r] =
                       [@ EXCEPT !.pc = "client", !.got = "hit",
                                 !.session = session_cache[account_id].session]]
            /\ executor' = Submit(executor, r)
       ELSE IF account_id \in profiles
              THEN /\ task' = [task EXCEPT ![r] =
                        [@ EXCEPT !.pc = "validate",
                                  !.validated = TRUE,
                                  !.session = NewSession(account_id, r)]]
                   /\ executor' = Submit(executor, r)
              ELSE \* boto3.Session raises (ProfileNotFound): get_session
                   \* returns None, get_client None, collect_instance_data []
                   /\ task' = [task EXCEPT ![r] =
                        [TaskReturn(r, TRUE, <<>>) EXCEPT
                           !.got = SessionFailure("ProfileNotFound"),
                           !.client = "null"]]
                   /\ UNCHANGED executor

\* get_session, lines 46-59: validate_session has ended in the executor.
TaskValidated(r, outcome) ==
  /\ pc = "gather"
  /\ call' = NoCall
  /\ task[r].pc = "validate"
  /\ r \in executor.running
  /\ NoneUnstarted
  /\ UNCHANGED <<max_workers, environment, profiles, base, now, run,
                 immediate, cron_fired, pc, vsession, is_valid, idx,
                 valid_instances, account_instances, store, run_end,
                 summary>>
  /\ IF ValidationPassed(outcome)
       THEN /\ CacheInsert(aws_accounts[idx], task[r].session,
                           Validation(outcome))
            /\ task' = [task EXCEPT ![r] =
                          [@ EXCEPT !.pc = "client", !.got = "created",
                                    !.validation = Validation(outcome)]]
            /\ executor' = Submit(Finish(executor, r), r)
       ELSE /\ task' = [task EXCEPT ![r] =
                          [TaskReturn(r, TRUE, <<>>) EXCEPT
                             !.got = SessionFailure(outcome),
                             !.session = NoSession,
                             !.validation = Validation(outcome),
                             !.client = "null"]]
            /\ executor' = Finish(executor, r)
            /\ UNCHANGED <<session_cache, inserted>>

\* How create_client ends: it returns the client, its smoke test raises
\* DBInstanceNotFound, or session.client or the smoke test raises another
\* error.
SmokeOutcomes == {"ok", "DBInstanceNotFound", "ClientError"}

\* SmokeTestPasses without the except clause of lines 78-79.
SmokeTestStrict(outcome) == outcome = "ok"

\* create_client, lines 74-81: DBInstanceNotFound is caught (no instances is
\* normal) and the client returned; every other exception leaves
\* create_client.
SmokeTestPasses(outcome) == outcome \in {"ok", "DBInstanceNotFound"}

\* get_client, lines 68-93: create_client has ended in the executor.  What it
\* raised is caught at line 88 and get_client returns None, which
\* collect_instance_data answers with [] (lines 128-130).
TaskClient(r, outcome) ==
  /\ pc = "gather"
  /\ call' = NoCall
  /\ task[r].pc = "client"
  /\ r \in executor.running
  /\ NoneUnstarted
  /\ UNCHANGED <<max_workers, environment, profiles, base, now,
                 session_cache, run, immediate, cron_fired, pc, vsession,
                 is_valid, idx, valid_instances, account_instances, store,
                 run_end, summary, inserted>>
  /\ IF SmokeTestPasses(outcome)
       THEN /\ task' = [task EXCEPT ![r] =
                          [@ EXCEPT !.pc = "fetch", !.smoke = outcome,
                                    !.client = "client"]]
            /\ executor' = Submit(Finish(executor, r), r)
       ELSE /\ task' = [task EXCEPT ![r] =
                          [TaskReturn(r, TRUE, <<>>) EXCEPT
                             !.smoke = outcome,
                             !.client = IF except_Exception(outcome)
                                          THEN "null" ELSE "raised"]]
            /\ executor' = Finish(executor, r)

FetchOutcomes == {"ok", "ClientError", "Exception"}

\* collect_instance_data, lines 141-164: fetch_instances has ended in the
\* executor with k instances, a ClientError or another exception, and the
\* task is done with its client.
TaskFetch(r, outcome, k) ==
  /\ pc = "gather"
  /\ call' = NoCall
  /\ task[r].pc = "fetch"
  /\ r \in executor.running
  /\ NoneUnstarted
  /\ executor' = Finish(executor, r)
  /\ UNCHANGED <<max_workers, environment, profiles, base, now,
                 session_cache, run, immediate, cron_fired, pc, vsession,
                 is_valid, idx, valid_instances, account_instances, store,
                 run_end, summary, inserted>>
  /\ LET parsed == ParsedInstances(k, aws_accounts[idx], aws_regions[r], now)
         return == IF outcome = "ok" THEN TaskReturn(r, FALSE, parsed)
                   ELSE TaskReturn(r, TRUE, <<>>)
     IN  task' = [task EXCEPT ![r] = [return EXCEPT !.smoke = "none"]]

(* ------------------------------ collect_all_accounts ------------------- *)

\* asyncio.gather(*account_tasks, return_exceptions=True): the results in
\* task order.  collect_instance_data catches every Exception, so each is a
\* list.
region_results == [r \in Regions |-> task[r].result]

\* Extend that gives up at the first region without records, as if a failed
\* task cancelled the results after it.
RECURSIVE ExtendUntilEmpty(_, _)
ExtendUntilEmpty(results, n) ==
  IF n = 0 THEN <<>>
  ELSE IF \E m \in 1..(n - 1) : results[m] = <<>>
         THEN ExtendUntilEmpty(results, n - 1)
  ELSE ExtendUntilEmpty(results, n - 1) \o results[n]

\* Lines 227-232: valid_instances.extend(result) for each list result.
RECURSIVE Extend(_, _)
Extend(results, n) ==
  IF n = 0 THEN <<>> ELSE Extend(results, n - 1) \o results[n]

\* SavePlan without the two emptiness checks.
SavePlanAlways(instances) == "insert"

\* Lines 234-239 with save_instances lines 56-58: what happens to an
\* account's aggregate.  "warn": line 239; "skip": save_instances returns at
\* line 58; "insert": save_instances goes on to insert_one.
SavePlan(instances) ==
  IF instances # <<>>
    THEN IF instances = <<>> THEN "skip" ELSE "insert"
    ELSE "warn"

\* Document with the count taken before the last extend.
DocumentOffByOne(instances, account_id) ==
  [account_id |-> account_id, total_instances |-> Len(instances) - 1,
   instances |-> instances, collected_at |-> now]

\* save_instances, lines 68-74: the document handed to insert_one.
Document(instances, account_id) ==
  [account_id |-> account_id, total_instances |-> Len(instances),
   instances |-> instances, collected_at |-> now]

\* GatherComplete of a wait that returns with the first finished task.
GatherFirstCompleted == \E r \in Regions : task[r].pc = "done"

\* Line 224: the await of asyncio.gather(*account_tasks) resumes when every
\* task of the account has finished.
GatherComplete == \A r \in Regions : task[r].pc = "done"

\* gather has every result: lines 226-239 up to the next suspension, which is
\* insert_one, or the gather of the next account, or the end of the run.
GatherDone ==
  /\ pc = "gather"
  /\ call' = NoCall
  /\ GatherComplete
  /\ UNCHANGED <<max_workers, executor, environment, profiles, base,
                 now, session_cache, run, immediate, cron_fired, vsession,
                 is_valid, account_instances, store, inserted>>
  /\ LET valid == Extend(region_results, Len(aws_regions))
         plan == SavePlan(valid)
         rec == [done |-> TRUE, aggregate |-> valid,
                 auth_failed |-> \A r \in Regions : task[r].got = "null",
                 tasks |-> [r \in Regions |->
                              [finished |-> task[r].pc = "done",
                               failed |-> task[r].failed,
                               result |-> task[r].result]],
                 log |-> "none", sink |-> "none", completion |-> 0]
     IN  CASE plan = "insert" ->
                /\ valid_instances' = valid
                /\ summary' = [summary EXCEPT ![idx] = rec]
                /\ pc' = "insert"
                /\ task' = [r \in Regions |-> IdleTask]
                /\ UNCHANGED <<idx, run_end>>
           [] plan = "skip" ->
                /\ summary' = [summary EXCEPT ![idx] =
                                 [rec EXCEPT
                                    !.log = "collected",
                                    !.completion = CompletionEvents(idx)]]
                /\ NextAccount
           [] OTHER ->
                /\ summary' = [summary EXCEPT ![idx] =
                                 [rec EXCEPT
                                    !.log = "no_instances",
                                    !.completion = CompletionEvents(idx)]]
                /\ NextAccount

SaveOutcomes == {"ok", "insert_error", "index_error"}

\* InsertOne as replace_one(..., upsert=True) keyed by account_id.
ReplaceOne(collection, document) ==
  IF \E j \in 1..Len(collection) :
       collection[j].account_id = document.account_id
    THEN [j \in 1..Len(collection) |->
            IF collection[j].account_id = document.account_id
              THEN document ELSE collection[j]]
    ELSE Append(collection, document)

\* save_instances, line 78: collection.insert_one(data) adds the document
\* to the collection.
InsertOne(collection, document) == Append(collection, document)

\* SaveRaises of except clauses that log and do not raise.
SaveSwallows(outcome) == FALSE

\* SaveRaises of a create_index whose exception is logged and not raised.
SaveRaisesInsertOnly(outcome) == outcome = "insert_error"

\* save_instances, lines 92-98: an exception of insert_one or create_index is
\* logged and raised again by both except clauses.
SaveRaises(outcome) == outcome # "ok"

\* save_instances, lines 76-98, and collect_all_accounts lines 237, 243-245:
\* insert_one and the two create_index calls have ended.  An exception of
\* either is logged and raised again, through collect_all_accounts.
SaveDone(outcome) ==
  /\ pc = "insert"
  /\ UNCHANGED <<max_workers, call, executor, environment, profiles, base,
                 now, session_cache, run, immediate, cron_fired, vsession,
                 is_valid, account_instances, inserted>>
  /\ store' = IF outcome = "insert_error" THEN store
              ELSE InsertOne(store,
                             Document(valid_instances, aws_accounts[idx]))
  /\ IF ~SaveRaises(outcome)
       THEN /\ summary' = [summary EXCEPT
                             ![idx].log = "collected",
                             ![idx].sink = IF outcome = "ok" THEN "written"
                                           ELSE outcome,
                             ![idx].completion = CompletionEvents(idx)]
            /\ NextAccount
       ELSE /\ summary' = [summary EXCEPT ![idx].sink = outcome]
            /\ pc' = "idle"
            /\ run_end' = "raised"
            /\ valid_instances' = <<>>
            /\ UNCHANGED <<idx, task>>

(* ------------------------------ validation that never ends ------------ *)

\* get_session, lines 42-49: sts.get_caller_identity() of caller c (0:
\* validate_sso_access, r: the task of region r) never returns.  The await
\* of run_in_executor has no timeout, so the coroutine stays suspended and
\* the worker thread stays taken.
ValidateNeverReturns(c) ==
  /\ call' = NoCall
  /\ c \in executor.running
  /\ IF c = 0
       THEN /\ pc = "v_session"
            /\ pc' = "v_hung"
            /\ UNCHANGED task
       ELSE /\ pc = "gather"
            /\ task[c].pc = "validate"
            /\ NoneUnstarted
            /\ task' = [task EXCEPT ![c].pc = "hung"]
            /\ UNCHANGED pc
  /\ UNCHANGED <<max_workers, executor, environment, profiles, base,
                 now, session_cache, run, immediate, cron_fired, vsession,
                 is_valid, idx, valid_instances, account_instances, store,
                 run_end, summary, inserted>>

(* ------------------------------ session_strategy.py -------------------- *)

\* The variables a call of a strategy method, of clear_cache or of
\* get_session on its cache-hit path leaves alone: all but `call`.
CallFrame ==
  UNCHANGED <<max_workers, executor, environment, profiles, base, now,
              session_cache, run, immediate, cron_fired, pc, vsession,
              is_valid, idx, task, valid_instances, account_instances, store,
              run_end, summary, inserted>>

\* The strategies keep no state between calls and share none with the
\* collector, so the model calls them before the first run only.
StrategyCallable == pc = "idle" /\ call = NoCall /\ run = 0

\* What a create_session returns when `error` is raised in its try block
\* (session_strategy.py lines 40-42, 87-89).
CreateSessionFailure(error) ==
  IF except_Exception(error) THEN "null" ELSE "raised"

\* SSOSessionStrategy.create_session(account_id): boto3.Session raises
\* ProfileNotFound when the account has no profile.  It makes no AWS call.
SSOCreateSession(account_id) ==
  /\ StrategyCallable
  /\ call' = [op |-> "create_session", strategy |-> "sso",
              account_id |-> account_id,
              result |-> IF account_id \in profiles THEN "session"
                         ELSE CreateSessionFailure("ProfileNotFound"),
              thread |-> "none"]
  /\ CallFrame

\* How sts.assume_role and sts.get_caller_identity end.
StsOutcomes == {"ok", "ClientError", "EndpointConnectionError"}

\* IAMRoleSessionStrategy.create_session(account_id): sts.assume_role is
\* called in the coroutine itself, on the thread of the event loop.
IAMRoleCreateSession(account_id, outcome) ==
  /\ StrategyCallable
  /\ call' = [op |-> "create_session", strategy |-> "iam_role",
              account_id |-> account_id,
              result |-> IF outcome = "ok" THEN "session"
                         ELSE CreateSessionFailure(outcome),
              thread |-> "loop"]
  /\ CallFrame

\* SSOSessionStrategy.validate_access: create_session for the account of
\* sso_profile, then sts.get_caller_identity() in the coroutine itself.
SSOValidateAccess(outcome) ==
  /\ StrategyCallable
  /\ call' = IF profile_account_id \in profiles
               THEN [op |-> "validate_access", strategy |-> "sso",
                     account_id |-> profile_account_id,
                     result |-> IF outcome = "ok" THEN "true" ELSE "false",
                     thread |-> "loop"]
               ELSE [op |-> "validate_access", strategy |-> "sso",
                     account_id |-> profile_account_id,
                     result |-> "false", thread |-> "none"]
  /\ CallFrame

\* IAMRoleSessionStrategy.validate_access: sts.get_caller_identity() of the
\* base session, in the coroutine itself.
IAMRoleValidateAccess(outcome) ==
  /\ StrategyCallable
  /\ call' = [op |-> "validate_access", strategy |-> "iam_role",
              account_id |-> "none",
              result |-> IF outcome = "ok" THEN "true" ELSE "false",
              thread |-> "loop"]
  /\ CallFrame

(* ------------------------------ clear_cache ---------------------------- *)

\* clear_cache, lines 141-144: `with self._cache_lock:` in a plain method.
\* _cache_lock is an asyncio.Lock (line 19), which is a context manager for
\* `async with` only: the with statement raises before its body runs, and
\* _session_cache.clear() is not reached.  The cache is cleared to force a
\* new authentication: the model calls clear_cache after a run whose global
\* validation failed.
ClearCache ==
  /\ pc = "idle"
  /\ call = NoCall
  /\ run_end = "invalid"
  /\ call' = [NoCall EXCEPT !.op = "clear_cache", !.result = "raised"]
  /\ CallFrame

(* ------------------------------ get_session from outside -------------- *)

\* The callers whose validate_session call has been submitted and has not
\* ended.
Validating ==
  {c \in Callers :
     IF c = 0 THEN pc \in {"v_session", "v_hung"}
     ELSE task[c].pc \in {"validate", "hung"}}

\* LockHeldWhileValidating of a get_session whose `async with` block spans
\* the lookup, the creation and the insert.
LockKeptForCreation == TRUE

\* get_session, lines 26-31 and 51-53: the `async with self._cache_lock`
\* block of the lookup ends before the try block, and the lock is taken
\* again only for the insert: no coroutine holds it while its session is
\* created and validated.
LockHeldWhileValidating == FALSE

\* The coroutines that hold _cache_lock while they are suspended.
LockHolders == IF LockHeldWhileValidating THEN Validating ELSE {}

\* get_session(account_id) called by another coroutine of the event loop
\* (as check_account_access does, lines 95-98) while a task of the run is
\* validating a session of another account, for an account the cache
\* contains: lines 26-29.  With the lock free the call returns the cached
\* session in the same segment; with the lock held it is suspended in
\* acquire().  `call` keeps the answer until the next step of the program.
GetSessionCached(account_id) ==
  /\ call = NoCall
  /\ pc = "gather"
  /\ NoneUnstarted
  /\ Validating # {}
  /\ account_id # aws_accounts[idx]
  /\ CacheHit(account_id)
  /\ call' = [op |-> "get_session", strategy |-> "none",
              account_id |-> account_id,
              result |-> IF LockHolders = {} THEN "session" ELSE "waiting",
              thread |-> "none"]
  /\ CallFrame

\* The call has returned to its caller, which drops the result.
CallReturns ==
  /\ call # NoCall
  /\ call' = NoCall
  /\ CallFrame

\* Time passes.  A tick is four hours and a run lasts much less: the clock
\* ticks between runs.
Tick ==
  /\ pc = "idle"
  /\ call = NoCall
  /\ ~immediate
  /\ now % DayTicks = CronTick => cron_fired
  /\ now < MaxTime
  /\ now' = now + 1
  /\ cron_fired' = FALSE
  /\ UNCHANGED <<max_workers, call, executor, environment, profiles, base,
                 session_cache, run, immediate, pc, vsession, is_valid, idx,
                 task, valid_instances, account_instances, store, run_end,
                 summary, inserted>>

\* The steps of a run in progress in which an external call returns or
\* fails, or in which collect_all_accounts goes on after its gather.
RunStep ==
  \/ \E o \in ValidateOutcomes : ValidateSsoSession(o)
  \/ \E ok \in BOOLEAN : ValidateSsoClient(ok)
  \/ \E ok \in BOOLEAN : ValidateSsoIdentity(ok)
  \/ \E r \in Regions : TaskStart(r)
  \/ \E r \in Regions, o \in ValidateOutcomes : TaskValidated(r, o)
  \/ \E r \in Regions, o \in SmokeOutcomes : TaskClient(r, o)
  \/ \E r \in Regions, o \in FetchOutcomes, k \in 0..MaxInstances :
       TaskFetch(r, o, k)
  \/ GatherDone
  \/ \E o \in SaveOutcomes : SaveDone(o)

\* Every step but a validation that never returns.
NextReturning ==
  \/ \E kind \in {"immediate", "cron"} : StartRun(kind)
  \/ RunStep
  \/ \E a \in AccountIds : SSOCreateSession(a)
  \/ \E a \in AccountIds, o \in StsOutcomes : IAMRoleCreateSession(a, o)
  \/ \E o \in StsOutcomes : SSOValidateAccess(o)
  \/ \E o \in StsOutcomes : IAMRoleValidateAccess(o)
  \/ \E a \in AccountIds : GetSessionCached(a)
  \/ ClearCache
  \/ CallReturns
  \/ Tick

Next ==
  \/ NextReturning
  \/ \E c \in Callers : ValidateNeverReturns(c)

Spec == Init /\ [][Next]_vars

\* The program when every external call returns or fails.  The event loop
\* runs every coroutine that is ready, and a call that has returned makes
\* its coroutine ready: a run in progress keeps taking steps.
FairSpec == Init /\ [][NextReturning]_vars /\ WF_vars(RunStep)

(* ====================== properties of the session manager ============== *)

\* The get_session calls of the current gather that did not find their
\* account in the cache, and those among them that have returned.
MissCallers ==
  {r \in Regions : task[r].pc \notin {"idle", "start"} /\ task[r].got # "hit"}
ReturnedMiss == {r \in MissCallers : task[r].got \in {"created", "null"}}

\* C1: get_session calls for one account issued concurrently against a cache
\* with no live entry for it lead to exactly one identity-check call: never
\* do two of the callers each submit validate_session.
C1_OneValidationPerAccount ==
  Cardinality({r \in MissCallers : task[r].validated}) <= 1

\* C2: overlapping get_session calls for the same uncached account all return
\* the same outcome: the identical Session (the one in the cache), or all
\* null.
C2_SameOutcomeForConcurrentCallers ==
  /\ \A r1, r2 \in ReturnedMiss : task[r1].session = task[r2].session
  /\ \A r \in ReturnedMiss :
       task[r].got = "created" /\ idx > 0 =>
         session_cache[aws_accounts[idx]].session = task[r].session

\* Writes to the cache made for an account by an earlier run, hence before
\* any get_session call of the current run was issued.
EarlierInserts(account_id) ==
  {i \in inserted : i.acct = account_id /\ i.session.run < run}

\* C3: once get_session(a) has cached a session at time t, every
\* get_session(a) issued before t + TTL returns that session without a
\* creation or identity-check call; and a call issued when every earlier entry
\* is TTL old finds the entry absent and makes one fresh validation.
C3_CachedSessionServedForTTL ==
  \A r \in Regions :
    task[r].pc \notin {"idle", "start"} /\ idx > 0 =>
      /\ \A i \in EarlierInserts(aws_accounts[idx]) :
           i.time <= now /\ now < i.time + TTL =>
             /\ task[r].got = "hit"
             /\ task[r].session = i.session
             /\ ~task[r].validated
      /\ ( /\ EarlierInserts(aws_accounts[idx]) # {}
           /\ \A i \in EarlierInserts(aws_accounts[idx]) : i.time + TTL <= now
           /\ aws_accounts[idx] # profile_account_id )
         => task[r].got # "hit"

(* ====================== properties of the configuration ================ *)

\* Every session the run holds: in the cache, in validate_sso_access, in a
\* task.
SessionsInUse ==
  ({session_cache[k].session : k \in AccountIds}
     \cup {vsession} \cup {task[r].session : r \in Regions}) \ {NoSession}

\* C10: the credential strategy follows the operating mode: sessions are
\* created from the SSO profile when the mode is 'development' and by role
\* assumption in every other mode.
C10_StrategyFollowsMode ==
  \A s \in SessionsInUse :
    s.via = (IF auth_type = "sso" THEN "profile" ELSE "assume_role")

(* ====================== properties of the collection run =============== *)

\* Positions in the store of the documents the current run inserted for the
\* account at position i.
RunDocs(i) ==
  {j \in (base + 1)..Len(store) : store[j].account_id = aws_accounts[i]}

\* The records of the regions of an account whose task did not fail, in region
\* order; and the number of instances discovered for it.
RECURSIVE SucceededRecords(_, _)
SucceededRecords(tasks, n) ==
  IF n = 0 THEN <<>>
  ELSE SucceededRecords(tasks, n - 1)
         \o (IF tasks[n].failed THEN <<>> ELSE tasks[n].result)
Discovered(i) == Len(SucceededRecords(summary[i].tasks, Len(aws_regions)))

SinkErrors == {"insert_error", "index_error"}

\* C4: when the task of one (account, region) pair fails, the other tasks
\* still complete, the failed region contributes no record, and the
\* account's aggregate is the concatenation of the records of its other
\* regions; the failure does not end the run.
C4_FailedRegionIsIsolated ==
  /\ \A i \in Accounts :
       summary[i].done =>
         /\ \A r \in Regions :
              summary[i].tasks[r].failed => summary[i].tasks[r].result = <<>>
         /\ summary[i].aggregate =
              SucceededRecords(summary[i].tasks, Len(aws_regions))
  /\ \A i \in Accounts :
       ( /\ pc = "idle"
         /\ summary[i].done
         /\ \E r \in Regions : summary[i].tasks[r].failed
         /\ \A j \in Accounts : summary[j].sink \notin SinkErrors )
       => \A j \in Accounts : summary[j].done

C4_Witness ==
  \E i \in Accounts, r, q \in Regions :
    /\ summary[i].done
    /\ summary[i].tasks[r].failed
    /\ ~summary[i].tasks[q].failed
    /\ summary[i].tasks[q].result # <<>>
    /\ summary[i].aggregate = summary[i].tasks[q].result
    /\ \A j \in Accounts : summary[j].done

C6_EmptyAggregateNotWritten ==
  /\ \A i \in Accounts :
       summary[i].done /\ summary[i].aggregate = <<>> =>
         RunDocs(i) = {} /\ summary[i].sink = "none"
  /\ \A i \in Accounts :
       RunDocs(i) # {} \/ summary[i].sink # "none" \/ (pc = "insert" /\ idx = i) =>
         summary[i].done /\ summary[i].aggregate # <<>>
  /\ \A j \in 1..Len(store) :
       store[j].instances # <<>> /\ store[j].total_instances >= 1

C6_Witness ==
  \E i, j \in Accounts :
    /\ summary[i].done
    /\ summary[i].aggregate = <<>>
    /\ summary[i].log = "no_instances"
    /\ \A r \in Regions : ~summary[i].tasks[r].failed
    /\ summary[j].sink = "written"
    /\ run_end = "returned"

\* C7: the global access validation comes before any task; when it fails the
\* run ends with no task started and nothing written; when it succeeds, the
\* run ends before its last account only by a HistorySink error, never by a
\* failure of authentication or of a region call.
C7_GlobalValidationGatesTheRun ==
  /\ ( \/ idx > 0
       \/ \E r \in Regions : task[r].pc # "idle"
       \/ Len(store) > base ) => is_valid
  /\ run_end = "invalid" =>
       /\ pc = "idle"
       /\ idx = 0
       /\ \A i \in Accounts : ~summary[i].done
       /\ Len(store) = base
  /\ pc = "idle" /\ is_valid =>
       \/ run_end = "returned" /\ \A i \in Accounts : summary[i].done
       \/ run_end = "raised" /\ summary[idx].sink \in SinkErrors

C7_Witness ==
  /\ run = 2
  /\ run_end = "invalid"
  /\ store # <<>>

\* C8: a failed HistorySink write is not swallowed: collect_all_accounts ends
\* by raising, it does not go on or return normally.
C8_SinkFailureRaises ==
  /\ \A i \in Accounts :
       summary[i].sink \in SinkErrors => pc = "idle" /\ run_end = "raised"
  /\ run_end = "returned" => \A i \in Accounts : summary[i].sink \notin SinkErrors

C8_Witness ==
  /\ run_end = "raised"
  /\ summary[1].sink = "written"
  /\ summary[2].sink = "insert_error"

\* An account that succeeded with nothing to report, an account that is
\* degraded, and what collect_all_accounts itself reports of an account.
SucceededEmpty(i) ==
  /\ summary[i].done
  /\ \A r \in Regions : ~summary[i].tasks[r].failed
  /\ summary[i].aggregate = <<>>
Degraded(i) ==
  /\ summary[i].done
  /\ \A r \in Regions : summary[i].tasks[r].failed
AccountOutcome(i) == <<summary[i].log, summary[i].sink, RunDocs(i) # {}>>

\* C9: the per-account outcome of an account that succeeded with zero
\* instances differs from that of an account that failed authentication or
\* every region call.
C9_EmptyDiffersFromDegraded ==
  \A i, j \in Accounts :
    SucceededEmpty(i) /\ Degraded(j) => AccountOutcome(i) # AccountOutcome(j)

(* ====================== properties of error handling =================== *)

\* C11: an error raised while a session is created or validated (profile
\* lookup, assume-role, identity check) never leaves create_session of
\* either strategy or get_session: the caller gets no session (null).
C11_SessionErrorsBecomeNull ==
  /\ call.op = "create_session" => call.result \in {"session", "null"}
  /\ ( /\ call.op = "create_session"
       /\ call.strategy = "sso"
       /\ call.account_id \notin profiles ) => call.result = "null"
  /\ \A r \in Regions :
       /\ task[r].got \in {"pending", "hit", "created", "null"}
       /\ task[r].validation = "failed" => task[r].got = "null"
       /\ ( /\ task[r].pc \notin {"idle", "start"}
            /\ task[r].got # "hit"
            /\ aws_accounts[idx] \notin profiles ) => task[r].got = "null"

C11_Witness ==
  \E r, q \in Regions :
    /\ task[r].validation = "failed"
    /\ task[r].got = "null"
    /\ task[q].got = "created"

\* C12: get_client returns null whenever get_session returned null, returns
\* a client when the smoke test succeeded or raised DBInstanceNotFound, and
\* returns null, never raising, on every other error of create_client.
C12_GetClientContract ==
  \A r \in Regions :
    /\ task[r].client \in {"pending", "client", "null"}
    /\ task[r].got = "null" =>
         task[r].client = "null" /\ task[r].smoke = "none"
    /\ task[r].smoke \in {"ok", "DBInstanceNotFound"} =>
         task[r].client = "client"
    /\ task[r].smoke \in SmokeOutcomes \ {"ok", "DBInstanceNotFound"} =>
         task[r].client = "null" /\ task[r].pc = "done" /\ task[r].failed
    /\ task[r].pc = "fetch" => task[r].client = "client"

C12_Witness ==
  \E r, q \in Regions :
    /\ task[r].smoke = "DBInstanceNotFound"
    /\ task[r].client = "client"
    /\ task[r].pc = "fetch"
    /\ task[q].got = "null"
    /\ task[q].client = "null"

(* ====================== properties of the cache ======================== *)

\* C13: clear_cache, called in any state, returns with no entry left in the
\* session cache.
C13_ClearCacheEmptiesTheCache ==
  call.op = "clear_cache" =>
    /\ call.result = "returned"
    /\ \A k \in AccountIds : session_cache[k] = NoEntry

\* C16: every session in the cache passed its identity check before it was
\* stored; when the validation of a candidate fails, get_session returns
\* null and the candidate is not stored: the cache is as it was.
C16_OnlyValidatedSessionsCached ==
  /\ \A k \in AccountIds :
       session_cache[k] # NoEntry =>
         \E i \in inserted :
           /\ i.acct = k
           /\ i.session = session_cache[k].session
           /\ i.validation = "passed"
  /\ \A i \in inserted : i.validation = "passed"
  /\ \A r \in Regions :
       task[r].validation = "failed" =>
         /\ task[r].got = "null"
         /\ task[r].session = NoSession
         /\ \A k \in AccountIds :
              session_cache[k].session # NewSession(aws_accounts[idx], r)
         /\ \A i \in inserted :
              i.session # NewSession(aws_accounts[idx], r)

C16_Witness ==
  \E r, q \in Regions :
    /\ task[r].validation = "failed"
    /\ task[q].validation = "passed"
    /\ session_cache[aws_accounts[idx]].session = task[q].session
    /\ session_cache[aws_accounts[idx]].session.by = q

\* C17: within one cache generation the entry of an account id is written at
\* most once: two writes for the same account id are at least a time to
\* live apart.
C17_OneWritePerGeneration ==
  \A i, j \in inserted :
    i.acct = j.acct /\ i.session # j.session =>
      i.time + TTL <= j.time \/ j.time + TTL <= i.time

(* ====================== properties of the history ====================== *)

\* C14: history is append-only.  A run that returns has added exactly one
\* document for every account with a non-empty aggregate; no run adds more
\* than one; no step changes or removes a document already in the
\* collection; an account never has more documents than there were runs.
C14_HistoryIsAppendOnly ==
  /\ [](\A i \in Accounts :
          /\ Cardinality(RunDocs(i)) <= 1
          /\ run_end = "returned" /\ summary[i].aggregate # <<>> =>
               /\ Cardinality(RunDocs(i)) = 1
               /\ \A j \in RunDocs(i) :
                    store[j].instances = summary[i].aggregate
          /\ Cardinality({j \in 1..Len(store) :
                            store[j].account_id = aws_accounts[i]}) <= run)
  /\ [][/\ Len(store') >= Len(store)
        /\ SubSeq(store', 1, Len(store)) = store]_vars

C14_Witness ==
  /\ run = 2
  /\ run_end = "returned"
  /\ \E j, k \in 1..Len(store) :
       /\ j <= base
       /\ k > base
       /\ store[j].account_id = store[k].account_id
       /\ store[j].instances # <<>>
       /\ store[j].collected_at # store[k].collected_at

(* ====================== properties of the scheduling =================== *)

\* The validate_session calls that will never return.
Hung == {c \in Callers :
           IF c = 0 THEN pc = "v_hung" ELSE task[c].pc = "hung"}

\* C15: the validation call is time-bounded: when an identity check never
\* responds, get_session still returns and the run goes on.  In a state with
\* such a call the run can take a step.
C15_HungValidationDoesNotStall == Hung # {} => ENABLED RunStep

\* C18: accounts are collected one after another in the configured order,
\* the regions of one account together: the tasks of an account start only
\* when every task of the account before it has finished and its save, if
\* it had one, has completed.
C18_AccountsInOrderRegionsTogether ==
  /\ \A j \in Accounts :
       summary[j].done => \A r \in Regions : summary[j].tasks[r].finished
  /\ pc \in {"gather", "insert"} =>
       \A j \in Accounts :
         /\ j < idx =>
              /\ summary[j].done
              /\ summary[j].aggregate # <<>> => summary[j].sink = "written"
         /\ j = idx => (summary[j].done <=> pc = "insert")
         /\ j > idx => ~summary[j].done
  /\ (\E r \in Regions : task[r].pc # "idle") =>
       /\ pc = "gather"
       /\ \A r \in Regions : task[r].pc # "idle"
  /\ \A r \in Regions :
       task[r].session # NoSession =>
         task[r].session.acct = aws_accounts[idx]

C18_Witness ==
  /\ pc = "gather"
  /\ idx = 2
  /\ summary[1].sink = "written"
  /\ Regions \subseteq executor.running
  /\ \A r \in Regions : task[r].pc \in {"validate", "client", "fetch"}

(* ====================== properties of the worker pool ================== *)

\* The callers suspended in run_in_executor, and those whose call waits in
\* the queue of the executor.
InFlight ==
  {c \in Callers :
     IF c = 0 THEN pc \in {"v_session", "v_client", "v_identity", "v_hung"}
     ELSE task[c].pc \in {"validate", "client", "fetch", "hung"}}
Queued == {executor.queue[j] : j \in 1..Len(executor.queue)}

C20_BlockingCallsOnWorkerPool ==
  /\ call.thread # "loop"
  /\ InFlight \subseteq executor.running \cup Queued

(* ====================== properties of termination ====================== *)

\* The completion events the current run has logged.
RECURSIVE CompletionsUpTo(_)
CompletionsUpTo(n) ==
  IF n = 0 THEN 0 ELSE CompletionsUpTo(n - 1) + summary[n].completion
Completions == CompletionsUpTo(Len(aws_accounts))

\* A run whose global check passed is collecting its accounts.
Collecting == pc \in {"gather", "insert"}

\* C21: when every external call returns or fails, a run whose global check
\* passed ends: it returns, or a sink write raised.  The completion event is
\* reported at most once, by a run that returns and only with the tasks and
\* the save of every account finished; a run that returns has reported it.
C21_RunTerminatesAndCompletesOnce ==
  /\ [](/\ Completions <= 1
        /\ Completions = 1 =>
             /\ pc = "idle"
             /\ run_end = "returned"
             /\ \A i \in Accounts :
                  /\ summary[i].done
                  /\ \A r \in Regions : summary[i].tasks[r].finished
                  /\ summary[i].aggregate # <<>> =>
                       summary[i].sink = "written" /\ RunDocs(i) # {}
        /\ run_end = "returned" => Completions = 1)
  /\ Collecting ~>
       /\ pc = "idle"
       /\ \/ run_end = "returned"
          \/ run_end = "raised" /\ \E i \in Accounts :
                                     summary[i].sink \in SinkErrors

C21_Witness ==
  /\ run_end = "returned"
  /\ Completions = 1
  /\ \E i, j \in Accounts :
       /\ summary[i].sink = "written"
       /\ \A r \in Regions : summary[j].tasks[r].failed

\* C22: when the sink write of the account at position k raises, no account
\* at a later position is collected or saved in that run: the run is over,
\* no task of a later account was created and no document of one inserted.
C22_SinkFailureSkipsLaterAccounts ==
  \A k \in Accounts :
    summary[k].sink \in SinkErrors =>
      /\ pc = "idle"
      /\ idx = k
      /\ \A r \in Regions : task[r].pc = "idle"
      /\ \A j \in Accounts :
           j > k =>
             /\ ~summary[j].done
             /\ summary[j].sink = "none"
             /\ RunDocs(j) = {}

C22_Witness ==
  /\ run = 2
  /\ summary[1].sink = "insert_error"
  /\ RunDocs(2) = {}
  /\ ~summary[2].done
  /\ \E j \in 1..base : store[j].account_id = aws_accounts[2]

(* ====================== properties of the cache lock =================== *)

====
